---- MODULE Spec2Model ----
(***************************************************************************)
(* Model of src/servercn.py: the request entry point analyze_company, the  *)
(* helper initiate_chat_and_save_response, the report extraction           *)
(* filter_user_content, the two result files (result_<company>_<date>.md   *)
(* and .json) and the dialogue that user_proxy.initiate_chat drives        *)
(* between the two module-level agents analyst and user_proxy.             *)
(*                                                                         *)
(* Text is a sequence of tokens: "T" is the word TERMINATE, "#" is the     *)
(* substring ###, "nl" and "sp" are whitespace, anything else is other     *)
(* text.  A company name is a sequence of letters.                         *)
(***************************************************************************)
EXTENDS Integers, Sequences, FiniteSets, TLC

\* ---------------------------------------------------------------- bounds
\* Number of requests submitted to the entry point.
NReq == 2
\* Number of calendar days the run may span.
MaxDate == 2
\* Number of replies the stubbed reasoning collaborator chooses freely.
MaxFreeReplies == 1

\* ------------------------------------------------------ program constants
\* user_proxy: max_consecutive_auto_reply=10
MaxAutoReply == 10

Req == 1..NReq
Dates == 1..MaxDate

\* ------------------------------------------------------------------ text
Whitespace == {"nl", "sp"}

RECURSIVE LStrip(_)
LStrip(s) == IF s # <<>> /\ Head(s) \in Whitespace THEN LStrip(Tail(s)) ELSE s

RECURSIVE RStrip(_)
RStrip(s) ==
    IF s # <<>> /\ s[Len(s)] \in Whitespace
    THEN RStrip(SubSeq(s, 1, Len(s) - 1))
    ELSE s

\* str.strip()
Strip(s) == RStrip(LStrip(s))

\* str.endswith("TERMINATE")
EndsWithTerminate(s) == s # <<>> /\ s[Len(s)] = "T"

\* "###" in content
ContainsMarker(s) == \E i \in 1..Len(s) : s[i] = "#"

\* str.upper(), letter by letter
UpperChar(c) ==
    CASE c = "a" -> "A"
      [] c = "b" -> "B"
      [] c = "c" -> "C"
      [] OTHER -> c

\* A normalisation that keeps the case.
UpperKeepsCase(s) == s

Upper(s) == [i \in 1..Len(s) |-> UpperChar(s[i])]

\* The subjects a user types into the text box; <<>> is the empty box.
Companies == {<<>>, <<"a", "b">>, <<"A", "B">>, <<"c">>}

Subjects == {Upper(c) : c \in Companies \ {<<>>}}

\* A result file is named by company and date: result_<company>_<date>.
Keys == Subjects \X Dates

\* ---------------------------------------------------------------- agents
\* The tool names given to register_toolkits.
tools == {"get_company_profile", "get_company_news", "get_financial_basics",
          "get_stock_data"}

\* Tool names the reasoning collaborator may ask for: a tool that answers,
\* a tool that fails and a name that is not registered.
CalledTools == {"get_stock_data", "get_company_news", "get_price_target"}

\* The tools whose call fails.
FailingTools == {"get_company_news"}

NoTool == "none"

\* A termination test that does not strip the content.
is_termination_msg_unstripped(x) ==
    /\ x.tool = NoTool
    /\ x.content # <<>>
    /\ EndsWithTerminate(x.content)

\* user_proxy's is_termination_msg:
\*   x.get("content", "") and x.get("content", "").strip().endswith("TERMINATE")
\* A tool-call message carries content None, which is falsy like "".
is_termination_msg(x) ==
    /\ x.tool = NoTool
    /\ x.content # <<>>
    /\ EndsWithTerminate(Strip(x.content))

\* A budget test that is late by one.
ReplyBudgetSpentLate(n) == n > MaxAutoReply

\* A reply budget that is never spent.
ReplyBudgetUnlimited(n) == FALSE

\* user_proxy stops replying after max_consecutive_auto_reply replies.
ReplyBudgetSpent(n) == n >= MaxAutoReply

\* Texts the reasoning collaborator may answer with.
FreeTexts ==
    { <<>>, <<"nl">>, <<"x">>, <<"#", "x">>, <<"T", "x">>,
      <<"#", "T">>, <<"#", "x", "T", "nl">> }

ShortTexts == { <<"#", "x">>, <<"#", "T">>, <<"T", "nl">> }

Msg(role, content, tool, owner) ==
    [role |-> role, content |-> content, tool |-> tool, owner |-> owner]

VARIABLES
    today,      \* date.today()
    md,         \* result_<company>_<date>.md : <<>> when missing, <<text>>
    js,         \* result_<company>_<date>.json : <<>> when missing, <<transcript>>
    chat,       \* user_proxy.chat_messages[analyst]
    counter,    \* user_proxy._consecutive_auto_reply_counter[analyst]
    stub,       \* the stubbed reasoning collaborator
    pc,         \* position of each request
    company,    \* analyze_company: company
    key0,       \* analyze_company: (company, today_date)
    key1,       \* initiate_chat_and_save_response: (company, today_date)
    content,    \* analyze_company: content
    ret,        \* value analyze_company returned
    conv,       \* state of the conversation of each request
    replies,    \* messages each agent appended in the conversation of each request
    hist        \* history of the run, for stating properties

vars == <<today, md, js, chat, counter, stub, pc, company, key0, key1,
          content, ret, conv, replies, hist>>

NoContent == [kind |-> "none", transcript |-> <<>>, text |-> <<>>]
Pending == [kind |-> "pending", text |-> <<>>]
Returned(kind, text) == [kind |-> kind, text |-> text]

\* The reasoning collaborator is a stub: its first stub.free replies of a
\* conversation are any of stub.texts or a call of any of stub.calls, the
\* later ones follow stub.tail.
\* A stub with tail "toolcall" goes on calling the tool stub.tailCall, or
\* ends the task.
ShortStub ==
    [free |-> MaxFreeReplies, texts |-> ShortTexts,
     calls |-> {"get_stock_data"}, tail |-> "terminate",
     tailCall |-> "get_stock_data"]

LongStub(t) ==
    [free |-> MaxFreeReplies + 1, texts |-> FreeTexts,
     calls |-> CalledTools, tail |-> "toolcall", tailCall |-> t]

InitWith(s) ==
    /\ today = 1
    /\ md = [k \in Keys |-> <<>>]
    /\ js = [k \in Keys |-> <<>>]
    /\ chat = <<>>
    /\ counter = 0
    /\ stub = s
    /\ pc = [r \in Req |-> "idle"]
    /\ company = [r \in Req |-> <<>>]
    /\ key0 = [r \in Req |-> <<<<>>, 1>>]
    /\ key1 = [r \in Req |-> <<<<>>, 1>>]
    /\ content = [r \in Req |-> NoContent]
    /\ ret = [r \in Req |-> Pending]
    /\ conv = [r \in Req |-> "none"]
    /\ replies = [r \in Req |-> [analyst |-> 0, proxy |-> 0]]
    /\ hist = [invoked |-> [r \in Req |-> 0],
               lookedUp |-> [r \in Req |-> FALSE],
               doneAtStart |-> [r \in Req |-> {}],
               entryAtStart |-> [r \in Req |-> FALSE],
               mdWrites |-> [k \in Keys |-> 0],
               wroteMd |-> [r \in Req |-> 0],
               own |-> [r \in Req |-> <<>>],
               saved |-> [r \in Req |-> <<>>]]

Init == InitWith(ShortStub)

\* A lookup that never finds the file.
MdExistsNever(k) == FALSE

\* os.path.exists(md_filename)
MdExists(k) == md[k] # <<>>

\* read_response_from_md(filename)
read_response_from_md(k) == md[k][1]

\* save_to_md(content, filename): file.write(content + "\n") in mode "w"
save_to_md(text) == <<text \o <<"nl">>>>

\* save_response_to_json(response, filename), mode "w"
save_response_to_json(history) == <<history>>

\* "No relevant content found."
NoRelevantContent == <<"nf">>

\* An extraction in which the last match wins.
RECURSIVE filter_last_match(_)
filter_last_match(h) ==
    IF h = <<>> THEN NoRelevantContent
    ELSE LET m == h[Len(h)] IN
         IF m.role = "user" /\ ContainsMarker(m.content)
         THEN m.content
         ELSE filter_last_match(SubSeq(h, 1, Len(h) - 1))

\* filter_user_content(chat_history), after json.loads
RECURSIVE filter_user_content(_)
filter_user_content(h) ==
    IF h = <<>> THEN NoRelevantContent
    ELSE IF Head(h).role = "user" /\ ContainsMarker(Head(h).content)
         THEN Head(h).content
         ELSE filter_user_content(Tail(h))

\* get_current_date(): date.today().strftime("%Y-%m-%d")
DateText(d) == <<"d1", "d2", "d3", "d4">>[d]

\* The task message of initiate_chat, "... available for {company} upon
\* {get_current_date()} ...": no "###" and no trailing TERMINATE.
TaskMessage(c, d) == <<"x">> \o c \o <<"x", DateText(d), "x">>

Done(r) == pc[r] \in {"done", "failed"}

\* An entry point without the test of line 144.
SubmitAnyCompany(r, c) ==
    /\ pc[r] = "idle"
    /\ \A q \in 1..(r - 1) : pc[q] # "idle"
    /\ company' = [company EXCEPT ![r] = c]
    /\ hist' = [hist EXCEPT !.doneAtStart[r] = {q \in Req : Done(q)},
                            !.entryAtStart[r] =
                                c # <<>> /\ md[<<Upper(c), today>>] # <<>>]
    /\ pc' = [pc EXCEPT ![r] = "lookup"]
    /\ key0' = [key0 EXCEPT ![r] = <<Upper(c), today>>]
    /\ UNCHANGED <<today, md, js, chat, counter, stub, key1, content, conv,
                   replies, ret>>

\* analyze_company(company), lines 144-147
Submit(r, c) ==
    /\ pc[r] = "idle"
    /\ \A q \in 1..(r - 1) : pc[q] # "idle"
    /\ company' = [company EXCEPT ![r] = c]
    /\ hist' = [hist EXCEPT !.doneAtStart[r] = {q \in Req : Done(q)},
                            !.entryAtStart[r] =
                                c # <<>> /\ md[<<Upper(c), today>>] # <<>>]
    /\ IF c = <<>>
       THEN /\ pc' = [pc EXCEPT ![r] = "done"]
            /\ ret' = [ret EXCEPT ![r] = Returned("none", <<>>)]
            /\ UNCHANGED key0
       ELSE /\ pc' = [pc EXCEPT ![r] = "lookup"]
            /\ key0' = [key0 EXCEPT ![r] = <<Upper(c), today>>]
            /\ UNCHANGED ret
    /\ UNCHANGED <<today, md, js, chat, counter, stub, key1, content, conv,
                   replies>>

\* analyze_company, lines 150-151
Lookup(r) ==
    /\ pc[r] = "lookup"
    /\ hist' = [hist EXCEPT !.lookedUp[r] = TRUE]
    /\ IF MdExists(key0[r])
       THEN /\ pc' = [pc EXCEPT ![r] = "done"]
            /\ ret' = [ret EXCEPT
                         ![r] = Returned("text", read_response_from_md(key0[r]))]
       ELSE /\ pc' = [pc EXCEPT ![r] = "inner"]
            /\ UNCHANGED ret
    /\ UNCHANGED <<today, md, js, chat, counter, stub, company, key0, key1,
                   content, conv, replies>>

\* initiate_chat_and_save_response, lines 115-121
InnerLookup(r) ==
    /\ pc[r] = "inner"
    /\ key1' = [key1 EXCEPT ![r] = <<key0[r][1], today>>]
    /\ IF MdExists(<<key0[r][1], today>>)
       THEN /\ pc' = [pc EXCEPT ![r] = "filter"]
            /\ content' = [content EXCEPT
                  ![r] = [kind |-> "report", transcript |-> <<>>,
                          text |-> read_response_from_md(<<key0[r][1], today>>)]]
       ELSE /\ pc' = [pc EXCEPT ![r] = "chat"]
            /\ UNCHANGED content
    /\ UNCHANGED <<today, md, js, chat, counter, stub, company, key0, ret,
                   conv, replies, hist>>

\* user_proxy.initiate_chat(analyst, message=...), lines 124-128: the chat
\* history and the reply counter of the agents are reset and the task
\* message is sent.
InitiateChat(r) ==
    /\ pc[r] = "chat"
    /\ chat' = <<Msg("assistant", TaskMessage(key0[r][1], today), NoTool, r)>>
    /\ counter' = 0
    /\ conv' = [conv EXCEPT ![r] = "Running"]
    /\ pc' = [pc EXCEPT ![r] = "analyst"]
    /\ hist' = [hist EXCEPT !.invoked[r] = @ + 1,
                            !.own[r] = <<Msg("assistant",
                                TaskMessage(key0[r][1], today), NoTool, r)>>]
    /\ UNCHANGED <<today, md, js, stub, company, key0, key1, content, ret,
                   replies>>

\* What the reasoning collaborator may reply in the conversation of r:
\* a text, or a call of a tool (content None).
AnalystReplies(r) ==
    IF replies[r].analyst < stub.free
    THEN {Msg("user", t, NoTool, r) : t \in stub.texts}
         \cup {Msg("assistant", <<>>, t, r) : t \in stub.calls}
    ELSE IF stub.tail = "terminate"
         THEN {Msg("user", <<"#", "T">>, NoTool, r)}
         ELSE {Msg("user", <<"#", "T">>, NoTool, r),
               Msg("assistant", <<>>, stub.tailCall, r)}

\* The analyst's reply reaches user_proxy: it is appended to the chat history
\* and user_proxy decides whether to reply (human_input_mode="NEVER"): not
\* after max_consecutive_auto_reply replies, and not to a termination message.
\* Either way the chat ends and the counter is reset; conv names the reason,
\* a termination message first.
AnalystReply(r, m) ==
    /\ pc[r] = "analyst"
    /\ m \in AnalystReplies(r)
    /\ chat' = Append(chat, m)
    /\ replies' = [replies EXCEPT ![r].analyst = @ + 1]
    /\ hist' = [hist EXCEPT !.own[r] = Append(@, m)]
    /\ IF ReplyBudgetSpent(counter) \/ is_termination_msg(m)
       THEN /\ counter' = 0
            /\ conv' = [conv EXCEPT ![r] = IF is_termination_msg(m)
                                           THEN "TerminatedNormally"
                                           ELSE "TerminatedByLimit"]
            /\ pc' = [pc EXCEPT ![r] = "save_json"]
       ELSE /\ counter' = counter + 1
            /\ pc' = [pc EXCEPT ![r] = "proxy"]
            /\ UNCHANGED conv
    /\ UNCHANGED <<today, md, js, stub, company, key0, key1, content, ret>>

\* A failure that leaves a report behind.
AnalystFailsSaving(r) ==
    /\ pc[r] = "analyst"
    /\ conv' = [conv EXCEPT ![r] = "Failed"]
    /\ pc' = [pc EXCEPT ![r] = "failed"]
    /\ ret' = [ret EXCEPT ![r] = Returned("error", <<>>)]
    /\ md' = [md EXCEPT ![key0[r]] = save_to_md(NoRelevantContent)]
    /\ UNCHANGED <<today, js, chat, counter, stub, company, key0, key1,
                   content, replies, hist>>

\* The reasoning call raises: initiate_chat raises, and so do
\* initiate_chat_and_save_response and analyze_company.
AnalystFails(r) ==
    /\ pc[r] = "analyst"
    /\ conv' = [conv EXCEPT ![r] = "Failed"]
    /\ pc' = [pc EXCEPT ![r] = "failed"]
    /\ ret' = [ret EXCEPT ![r] = Returned("error", <<>>)]
    /\ UNCHANGED <<today, md, js, chat, counter, stub, company, key0, key1,
                   content, replies, hist>>

\* A user_proxy that executes no tool and always sends its default reply.
ProxyRepliesDefault(r) ==
    IF pc[r] # "proxy" THEN {} ELSE {Msg("assistant", <<>>, NoTool, r)}

\* What user_proxy answers to the last message of the chat history: the
\* result or the error text of the tool it names, else the default reply "".
\* A result or an error text is data: it may itself contain "###" or end
\* with the word TERMINATE.
ProxyReplies(r) ==
    IF pc[r] # "proxy" THEN {}
    ELSE LET last == chat[Len(chat)] IN
         IF last.tool = NoTool
         THEN {Msg("assistant", <<>>, NoTool, r)}
         ELSE IF last.tool \notin tools
              THEN {Msg("tool", <<"e">>, NoTool, r)}
              ELSE IF last.tool \in FailingTools
                   THEN {Msg("tool", <<"e", "T">>, NoTool, r)}
                   ELSE {Msg("tool", <<"#", "d">>, NoTool, r)}

\* A user_proxy whose conversation fails on a tool name it does not know.
ProxyReplyFailsOnUnknown(r, m) ==
    /\ pc[r] = "proxy"
    /\ m \in ProxyReplies(r)
    /\ IF chat[Len(chat)].tool \in tools \cup {NoTool}
       THEN /\ chat' = Append(chat, m)
            /\ replies' = [replies EXCEPT ![r].proxy = @ + 1]
            /\ hist' = [hist EXCEPT !.own[r] = Append(@, m)]
            /\ pc' = [pc EXCEPT ![r] = "analyst"]
            /\ UNCHANGED <<ret, conv>>
       ELSE /\ conv' = [conv EXCEPT ![r] = "Failed"]
            /\ pc' = [pc EXCEPT ![r] = "failed"]
            /\ ret' = [ret EXCEPT ![r] = Returned("error", <<>>)]
            /\ UNCHANGED <<chat, replies, hist>>
    /\ UNCHANGED <<today, md, js, counter, stub, company, key0, key1, content>>

ProxyReply(r, m) ==
    /\ pc[r] = "proxy"
    /\ m \in ProxyReplies(r)
    /\ chat' = Append(chat, m)
    /\ replies' = [replies EXCEPT ![r].proxy = @ + 1]
    /\ hist' = [hist EXCEPT !.own[r] = Append(@, m)]
    /\ pc' = [pc EXCEPT ![r] = "analyst"]
    /\ UNCHANGED <<today, md, js, counter, stub, company, key0, key1, content,
                   ret, conv>>

\* initiate_chat_and_save_response, lines 130-131: response.chat_history is
\* user_proxy.chat_messages[analyst]
SaveJson(r) ==
    /\ pc[r] = "save_json"
    /\ js' = [js EXCEPT ![key1[r]] = save_response_to_json(chat)]
    /\ content' = [content EXCEPT
          ![r] = [kind |-> "transcript", transcript |-> chat, text |-> <<>>]]
    /\ hist' = [hist EXCEPT !.saved[r] = <<chat>>]
    /\ pc' = [pc EXCEPT ![r] = "filter"]
    /\ UNCHANGED <<today, md, chat, counter, stub, company, key0, key1, ret,
                   conv, replies>>

\* A variant that saves a report only when one was found.
FilterAndSaveOnMatch(r) ==
    /\ pc[r] = "filter"
    /\ IF content[r].kind = "report"
       THEN /\ pc' = [pc EXCEPT ![r] = "failed"]
            /\ ret' = [ret EXCEPT ![r] = Returned("error", <<>>)]
            /\ UNCHANGED <<md, hist>>
       ELSE LET filtered_content == filter_user_content(content[r].transcript) IN
            /\ IF filtered_content = NoRelevantContent
               THEN UNCHANGED <<md, hist>>
               ELSE /\ md' = [md EXCEPT ![key0[r]] = save_to_md(filtered_content)]
                    /\ hist' = [hist EXCEPT !.mdWrites[key0[r]] = @ + 1,
                                            !.wroteMd[r] = @ + 1]
            /\ ret' = [ret EXCEPT ![r] = Returned("text", filtered_content)]
            /\ pc' = [pc EXCEPT ![r] = "done"]
    /\ UNCHANGED <<today, js, chat, counter, stub, company, key0, key1,
                   content, conv, replies>>

\* analyze_company, lines 155-157: json.loads raises on a report text.
FilterAndSave(r) ==
    /\ pc[r] = "filter"
    /\ IF content[r].kind = "report"
       THEN /\ pc' = [pc EXCEPT ![r] = "failed"]
            /\ ret' = [ret EXCEPT ![r] = Returned("error", <<>>)]
            /\ UNCHANGED <<md, hist>>
       ELSE LET filtered_content == filter_user_content(content[r].transcript) IN
            /\ md' = [md EXCEPT ![key0[r]] = save_to_md(filtered_content)]
            /\ hist' = [hist EXCEPT !.mdWrites[key0[r]] = @ + 1,
                                    !.wroteMd[r] = @ + 1]
            /\ ret' = [ret EXCEPT ![r] = Returned("text", filtered_content)]
            /\ pc' = [pc EXCEPT ![r] = "done"]
    /\ UNCHANGED <<today, js, chat, counter, stub, company, key0, key1,
                   content, conv, replies>>

\* The calendar day changes.
Midnight ==
    /\ today < MaxDate
    /\ today' = today + 1
    /\ UNCHANGED <<md, js, chat, counter, stub, pc, company, key0, key1,
                   content, ret, conv, replies, hist>>

Step(r) ==
    \/ \E c \in Companies : Submit(r, c)
    \/ Lookup(r)
    \/ InnerLookup(r)
    \/ InitiateChat(r)
    \/ \E m \in AnalystReplies(r) : AnalystReply(r, m)
    \/ AnalystFails(r)
    \/ \E m \in ProxyReplies(r) : ProxyReply(r, m)
    \/ SaveJson(r)
    \/ FilterAndSave(r)

Next ==
    \/ \E r \in Req : Step(r)
    \/ Midnight

Spec == Init /\ [][Next]_vars

\* One request alone, with a reasoning collaborator that may go on calling
\* tools until user_proxy stops replying.
InitDialogue == \E t \in CalledTools : InitWith(LongStub(t))

NextDialogue == Step(1)

SpecDialogue == InitDialogue /\ [][NextDialogue]_vars

\* The same, where every step that can be taken is taken: the call of the
\* model, each tool and each file operation returns, and initiate_chat runs
\* the conversation until it ends.
FairSpecDialogue == SpecDialogue /\ WF_vars(NextDialogue)

\* ------------------------------------------------------------ properties
Started(r) == pc[r] # "idle" /\ company[r] # <<>>

\* q was called after r had returned.
After(r, q) == pc[q] # "idle" /\ r \in hist.doneAtStart[q]

ReturnedText(r) == pc[r] = "done" /\ ret[r].kind = "text"

\* C1: of two sequential calls of analyze_company for the same subject and
\* date, at most one invokes initiate_chat and the second returns the very
\* text the first returned.
C1_SecondCallIdentical ==
    \A r, q \in Req :
        (After(r, q) /\ ReturnedText(r) /\ ReturnedText(q) /\ key0[r] = key0[q])
            => /\ hist.invoked[r] + hist.invoked[q] <= 1
               /\ ret[q].text = ret[r].text

\* C2: whatever the interleaving of the requests for one subject and date,
\* the report entry of that key is written once only (the requests that lose
\* the race discard their work).
C2_OneWritePerKey == \A k \in Keys : hist.mdWrites[k] <= 1

\* C3: once a report entry exists for a key, no step writes that key again
\* or changes its content.
C3_WriteOnce ==
    [][\A k \in Keys :
          md[k] # <<>> => (md'[k] = md[k] /\ hist'.mdWrites[k] = hist.mdWrites[k])]_vars

\* C4: a request invokes initiate_chat only after its lookup of its report
\* entry, and a request called when the report entry of its key exists never
\* invokes initiate_chat.
C4_LookupBeforeChat ==
    \A r \in Req :
        /\ hist.invoked[r] > 0 => hist.lookedUp[r]
        /\ pc[r] \in {"chat", "analyst", "proxy", "save_json"} => hist.lookedUp[r]
        /\ hist.entryAtStart[r] =>
              (hist.invoked[r] = 0 /\ pc[r] \in {"lookup", "done"})

\* A request called after another wrote the entry of its key is served
\* without a chat.
C4_Witness ==
    \E r, q \in Req :
        /\ After(r, q) /\ hist.wroteMd[r] = 1 /\ hist.invoked[r] = 1
        /\ hist.entryAtStart[q] /\ ReturnedText(q) /\ hist.invoked[q] = 0

\* C5: a request whose reasoning call raises returns the failure to its
\* caller, has written neither a transcript nor a report, and does not keep
\* a later request for the same key from running the chat itself.
C5_FailureLeavesNoEntry ==
    \A r \in Req :
        conv[r] = "Failed" =>
            /\ pc[r] = "failed" /\ ret[r].kind = "error"
            /\ hist.wroteMd[r] = 0 /\ hist.saved[r] = <<>>
            /\ (\A q \in Req \ {r} : pc[q] = "idle" \/ company[q] = <<>>)
                  => (md = [k \in Keys |-> <<>>] /\ js = [k \in Keys |-> <<>>])
            /\ \A q \in Req :
                  (After(r, q) /\ key0[q] = key0[r] /\ ReturnedText(q)
                     /\ hist.mdWrites[key0[q]] = hist.wroteMd[q])
                      => hist.invoked[q] = 1

\* A request failed and a later request for its key ran the chat and
\* returned a report.
C5_Witness ==
    \E r, q \in Req :
        /\ conv[r] = "Failed" /\ After(r, q) /\ key0[q] = key0[r]
        /\ ReturnedText(q) /\ hist.invoked[q] = 1 /\ hist.wroteMd[q] = 1

\* C6: the transcript a request saves holds the messages of its own
\* conversation and no others, whatever other requests run at the same time.
C6_RequestsIsolated ==
    \A r \in Req : hist.saved[r] # <<>> => hist.saved[r][1] = hist.own[r]

\* Letters that differ in case only.
SameLetter(a, b) ==
    \E pair \in {<<"a", "A">>, <<"b", "B">>, <<"c", "C">>} :
        a \in {pair[1], pair[2]} /\ b \in {pair[1], pair[2]}

DifferInCaseOnly(s, t) ==
    Len(s) = Len(t) /\ \A i \in 1..Len(s) : SameLetter(s[i], t[i])

\* C10: requests whose subjects differ in letter case only and that are
\* called on the same day use the same key, whose subject has no lower-case
\* letter left, so the later one is served from the entry the earlier one
\* wrote.
C10_CaseFoldedKey ==
    \A r, q \in Req :
        (Started(r) /\ Started(q) /\ DifferInCaseOnly(company[r], company[q]))
            => /\ \A i \in 1..Len(key0[r][1]) : key0[r][1][i] \in {"A", "B", "C"}
               /\ key0[r][2] = key0[q][2] => key0[r] = key0[q]
               /\ (After(r, q) /\ key0[r][2] = key0[q][2] /\ ReturnedText(r)
                     /\ pc[q] # "lookup")
                      => (ReturnedText(q) /\ hist.invoked[q] = 0)

\* "ab" was analysed and a later request for "AB" (or the reverse) was served
\* from its entry.
C10_Witness ==
    \E r, q \in Req :
        /\ company[r] # company[q] /\ DifferInCaseOnly(company[r], company[q])
        /\ After(r, q) /\ hist.wroteMd[r] = 1
        /\ ReturnedText(q) /\ hist.invoked[q] = 0
        /\ <<ret[q].text>> = md[key0[r]]

\* The content is the sentinel token, or text that ends with it.
EndsWithSentinel(s) == Len(s) > 0 /\ s[Len(s)] = "T"

\* The content ends with the sentinel token once the whitespace after it is
\* left out.
EndsWithSentinelThenSpace(s) ==
    \E i \in 1..Len(s) :
        s[i] = "T" /\ \A j \in (i + 1)..Len(s) : s[j] \in {"nl", "sp"}

Conversing(r) == conv[r] \in {"Running", "TerminatedNormally", "TerminatedByLimit"}

\* C7 as stated: the conversation is TerminatedNormally exactly from the
\* first message on whose content ends with the sentinel token; no other
\* message terminates it.
C7_TerminatesOnSentinelSuffix ==
    Conversing(1) =>
        /\ conv[1] = "TerminatedNormally" => EndsWithSentinel(chat[Len(chat)].content)
        /\ \A i \in 2..Len(chat) :
              EndsWithSentinel(chat[i].content)
                  => (i = Len(chat) /\ conv[1] = "TerminatedNormally")

\* C7 as amended: the conversation is TerminatedNormally exactly from the
\* first reply of the reasoning agent on whose content, stripped of the
\* whitespace around it, ends with the sentinel token; an empty reply, a
\* reply that does not end so and a message of user_proxy do not terminate it.
C7_TerminatesOnStrippedSentinel ==
    Conversing(1) =>
        /\ conv[1] = "TerminatedNormally" =>
              /\ chat[Len(chat)].role = "user"
              /\ EndsWithSentinelThenSpace(chat[Len(chat)].content)
        /\ \A i \in 2..Len(chat) :
              (chat[i].role = "user" /\ EndsWithSentinelThenSpace(chat[i].content))
                  => (i = Len(chat) /\ conv[1] = "TerminatedNormally")

\* The conversation ended on a reply with whitespace after the sentinel,
\* after replies that hold the sentinel elsewhere, or none, did not end it.
C7_Witness ==
    /\ conv[1] = "TerminatedNormally"
    /\ Len(chat) > 2
    /\ ~EndsWithSentinel(chat[Len(chat)].content)
    /\ \E i \in 2..(Len(chat) - 1) : chat[i].content \in {<<"T", "x">>, <<>>, <<"e", "T">>}

turnCount(r) == replies[r].analyst + replies[r].proxy

\* C8 as stated: turnCount, which counts every message appended to the
\* conversation, never exceeds the configured maximum and equals it when the
\* run ends through the budget.
C8_TurnCountAtLimit ==
    /\ turnCount(1) <= MaxAutoReply
    /\ conv[1] = "TerminatedByLimit" => turnCount(1) = MaxAutoReply

\* C8 as amended: the replies of user_proxy never exceed the configured
\* maximum, and a run that ends through the budget has exactly that many of
\* them, one reply of the reasoning agent more, and is TerminatedByLimit.
C8_AutoRepliesAtLimit ==
    /\ replies[1].proxy <= MaxAutoReply
    /\ counter <= MaxAutoReply
    /\ conv[1] = "TerminatedByLimit" =>
          /\ replies[1].proxy = MaxAutoReply
          /\ replies[1].analyst = MaxAutoReply + 1
    /\ (conv[1] = "Running" /\ pc[1] = "proxy" /\ replies[1].proxy = MaxAutoReply - 1)
          => counter = MaxAutoReply

C8_Witness ==
    /\ conv[1] = "TerminatedByLimit"
    /\ pc[1] = "done"
    /\ Len(chat) = 2 * MaxAutoReply + 2

\* C9: the report extracted from a transcript is the content of its first
\* message with role "user" and the marker ###, and the no-match text when
\* it has none.
C9_FirstMatchWins ==
    \A r \in Req :
        (pc[r] = "done" /\ content[r].kind = "transcript") =>
            LET h == content[r].transcript
                M == {i \in 1..Len(h) :
                        h[i].role = "user"
                        /\ \E j \in 1..Len(h[i].content) : h[i].content[j] = "#"}
            IN  IF M = {}
                THEN ret[r] = Returned("text", <<"nf">>)
                ELSE \E i \in M :
                        /\ \A j \in M : i <= j
                        /\ ret[r] = Returned("text", h[i].content)

\* A transcript with a tool result that holds the marker, then two replies of
\* the reasoning agent that hold it: the first of the two was extracted.
C9_Witness ==
    \E r \in Req :
        /\ pc[r] = "done" /\ content[r].kind = "transcript"
        /\ LET h == content[r].transcript IN
           \E i, j, k \in 1..Len(h) :
              /\ i < j /\ j < k
              /\ h[i].role = "tool" /\ h[i].content = <<"#", "d">>
              /\ h[j].role = "user" /\ h[j].content = <<"#", "x">>
              /\ h[k].role = "user" /\ h[k].content = <<"#", "T">>
              /\ ret[r].text = <<"#", "x">>

\* No message of the transcript matches and the no-match text was returned.
C9_WitnessNoMatch ==
    \E r \in Req :
        /\ pc[r] = "done" /\ content[r].kind = "transcript"
        /\ ret[r].text = <<"nf">>

Terminal(r) == conv[r] \in {"TerminatedNormally", "TerminatedByLimit"}

\* The text is the content of a message of the transcript that has role
\* "user" and holds the marker, or the no-match text when there is none.
IsReportOf(text, h) ==
    LET M == {i \in 1..Len(h) :
                h[i].role = "user"
                /\ \E j \in 1..Len(h[i].content) : h[i].content[j] = "#"}
    IN  IF M = {} THEN text = <<"nf">> ELSE \E i \in M : text = h[i].content

\* C11: a run that ended TerminatedNormally or TerminatedByLimit never
\* fails afterwards, and when its request has returned, the transcript is
\* saved, the report entry of the request's key exists and holds the returned
\* text, which is the report filtered from the transcript (the no-match text
\* included).
C11_TerminalRunPersisted ==
    \A r \in Req :
        Terminal(r) =>
            /\ pc[r] \in {"save_json", "filter", "done"}
            /\ pc[r] \in {"filter", "done"} => js[key1[r]] # <<>>
            /\ pc[r] = "done" =>
                  /\ ret[r].kind = "text"
                  /\ js[key1[r]] # <<>>
                  /\ IsReportOf(ret[r].text, js[key1[r]][1])
                  /\ md[key0[r]] = <<ret[r].text \o <<"nl">>>>

\* A run ended by the reply budget, nothing matched, and the request
\* returned the no-match text, saved as the report.
C11_Witness ==
    \E r \in Req :
        /\ conv[r] = "TerminatedByLimit" /\ pc[r] = "done"
        /\ ret[r] = Returned("text", <<"nf">>)
        /\ md[key0[r]] = <<<<"nf", "nl">>>>
        /\ js[key1[r]] # <<>>

IsToolCall(m) == m.tool # "none"

IsToolResponse(m) == m.role = "tool" /\ m.tool = "none" /\ m.content # <<>>

\* Every response in the conversation answers the tool call right before it.
ResponsesFollowCalls ==
    \A i \in 1..Len(chat) :
        chat[i].role = "tool" => (i > 1 /\ IsToolCall(chat[i - 1]))

IsUnknownCall(m) == m.tool \notin tools \cup {"none"}

FunctionNotFound == [role |-> "tool", content |-> <<"e">>, tool |-> "none",
                     owner |-> 1]

\* user_proxy, replying to the call of an unregistered tool, appends the
\* error text and the conversation is Running afterwards.
UnknownCallAnswered ==
    IF pc[1] = "proxy" /\ chat # chat' /\ IsUnknownCall(chat[Len(chat)])
    THEN /\ chat' = Append(chat, FunctionNotFound)
         /\ conv'[1] = "Running"
         /\ pc'[1] = "analyst"
    ELSE TRUE

C14_TerminatedIsFinal ==
    [][\A r \in Req :
          Terminal(r) =>
              /\ conv'[r] = conv[r]
              /\ pc[r] \in {"save_json", "filter"} => chat' = chat]_vars

\* C15: the value analyze_company passes to filter_user_content is a
\* serialized transcript, never the text of a cached report, and a request
\* whose conversation did not fail does not end in an error.
C15_FilterGetsTranscript ==
    \A r \in Req :
        /\ content[r].kind # "report"
        /\ pc[r] = "failed" => conv[r] = "Failed"

\* C16: a conversation is Running for a bounded number of steps, at most
\* max_consecutive_auto_reply replies of each agent and the task message,
\* and every conversation that is Running leaves Running, also when the
\* sentinel is never emitted.
C16_LeavesRunning ==
    /\ [](conv[1] = "Running" =>
            /\ replies[1].analyst <= MaxAutoReply
            /\ replies[1].proxy <= MaxAutoReply
            /\ Len(chat) <= 2 * MaxAutoReply + 1)
    /\ (conv[1] = "Running") ~> (conv[1] # "Running")

\* A conversation ended by the budget in which no message holds the
\* sentinel.
C16_Witness ==
    /\ conv[1] = "TerminatedByLimit"
    /\ Len(chat) = 2 * MaxAutoReply + 2
    /\ \A i \in 1..Len(chat) :
          \A j \in 1..Len(chat[i].content) : chat[i].content[j] # "T"

\* C17: a key that has a report entry has a transcript entry, and a request
\* uses one date for the key of its transcript, the key of its report and
\* its task message, also when the day changes while it runs.
C17_TranscriptBeforeReport ==
    /\ \A k \in Keys : md[k] # <<>> => js[k] # <<>>
    /\ \A r \in Req :
          hist.own[r] # <<>> =>
              /\ key1[r] = key0[r]
              /\ hist.own[r][1].content = TaskMessage(key0[r][1], key0[r][2])

NoSubject(r) == pc[r] # "idle" /\ company[r] = <<>>

\* C18: a request with an empty or missing subject returns at once with no
\* report; it looks up no entry, invokes no conversation, writes no
\* transcript and no report, and the step that serves it leaves the files
\* and the agents as they are.
C18_NoSubjectNoEffect ==
    /\ [](\A r \in Req :
            NoSubject(r) =>
                /\ pc[r] = "done"
                /\ ret[r] = [kind |-> "none", text |-> <<>>]
                /\ ~hist.lookedUp[r]
                /\ hist.invoked[r] = 0
                /\ hist.wroteMd[r] = 0
                /\ hist.saved[r] = <<>>
                /\ hist.own[r] = <<>>
                /\ conv[r] = "none")
    /\ [][\A r \in Req :
            (pc[r] = "idle" /\ NoSubject(r)') =>
                /\ md' = md /\ js' = js
                /\ chat' = chat /\ counter' = counter
                /\ conv' = conv]_vars

\* A request with no subject has returned nothing after an earlier request
\* had written its report, which is still there.
C18_Witness ==
    \E r, q \in Req :
        /\ NoSubject(r) /\ pc[r] = "done" /\ ret[r].kind = "none"
        /\ After(q, r) /\ ReturnedText(q)
        /\ md[key0[q]] = <<ret[q].text \o <<"nl">>>>

====
